---- MODULE Spec2Model ----
(***************************************************************************)
(* Model of the enumeration dispatcher of subfinder-rs:                    *)
(* Runner::enumerate_domain (src/src/runner.rs) and the validity filter    *)
(* is_valid_subdomain (src/src/sources/mod.rs).                            *)
(*                                                                         *)
(* Strings are sequences of one-character strings.  Time is a discrete     *)
(* clock `now`; the drain loop is polled as soon as one of the events it   *)
(* waits for is due, so the clock only advances when nothing is due.       *)
(***************************************************************************)
EXTENDS Integers, Sequences, FiniteSets, TLC

\* ------------------------------------------------------------------------
\* Bounds of the model
\* ------------------------------------------------------------------------
MaxTimeout == 3
MaxDeadline == 2
MaxWordLen == 2
MaxMerges == 4

\* ------------------------------------------------------------------------
\* Characters and strings
\* ------------------------------------------------------------------------
LowerSeq == <<"a","b","c","d","e","f","g","h","i","j","k","l","m",
              "n","o","p","q","r","s","t","u","v","w","x","y","z">>
UpperSeq == <<"A","B","C","D","E","F","G","H","I","J","K","L","M",
              "N","O","P","Q","R","S","T","U","V","W","X","Y","Z">>
DigitSeq == <<"0","1","2","3","4","5","6","7","8","9">>

Range(s) == { s[i] : i \in 1..Len(s) }

LowerChars == Range(LowerSeq)
UpperChars == Range(UpperSeq)
DigitChars == Range(DigitSeq)

\* char::is_ascii_alphanumeric
is_ascii_alphanumeric(c) ==
    c \in LowerChars \cup UpperChars \cup DigitChars

\* char::to_lowercase on one character (ASCII)
to_lowercase_char(c) ==
    IF c \in UpperChars
    THEN LowerSeq[CHOOSE i \in 1..Len(UpperSeq) : UpperSeq[i] = c]
    ELSE c

\* str::to_lowercase
to_lowercase(s) == [i \in 1..Len(s) |-> to_lowercase_char(s[i])]

\* str::ends_with
ends_with(s, suffix) ==
    /\ Len(suffix) <= Len(s)
    /\ SubSeq(s, Len(s) - Len(suffix) + 1, Len(s)) = suffix

\* str::starts_with
starts_with(s, prefix) ==
    /\ Len(prefix) <= Len(s)
    /\ SubSeq(s, 1, Len(prefix)) = prefix

\* str::contains
contains(s, pat) ==
    \E i \in 1..(Len(s) - Len(pat) + 1) : SubSeq(s, i, i + Len(pat) - 1) = pat

\* str::split(sep).collect(): the pieces between the occurrences of sep
RECURSIVE split(_, _)
split(s, sep) ==
    IF \A i \in 1..Len(s) : s[i] # sep
    THEN <<s>>
    ELSE LET k == CHOOSE i \in 1..Len(s) :
                     s[i] = sep /\ \A j \in 1..(i - 1) : s[j] # sep
         IN  <<SubSeq(s, 1, k - 1)>> \o split(SubSeq(s, k + 1, Len(s)), sep)

\* str::trim_end_matches: the suffix pat removed as often as it occurs
RECURSIVE trim_end_matches(_, _)
trim_end_matches(s, pat) ==
    IF Len(pat) > 0 /\ ends_with(s, pat)
    THEN trim_end_matches(SubSeq(s, 1, Len(s) - Len(pat)), pat)
    ELSE s

\* the characters of the model in the order of their byte values
ByteOrder == <<"-", ".">> \o DigitSeq \o UpperSeq \o <<"_">> \o LowerSeq

byte_rank(c) == CHOOSE i \in 1..Len(ByteOrder) : ByteOrder[i] = c

\* Ord of String: byte-wise lexicographic, a proper prefix comes first
str_lt(a, b) ==
    \E k \in 1..Len(b) :
        /\ k - 1 <= Len(a)
        /\ SubSeq(a, 1, k - 1) = SubSeq(b, 1, k - 1)
        /\ (Len(a) = k - 1 \/ byte_rank(a[k]) < byte_rank(b[k]))

\* the orders in which the elements of a set can be laid out
Orderings(S) ==
    { f \in [1..Cardinality(S) -> S] :
        \A i, j \in 1..Cardinality(S) : i # j => f[i] # f[j] }

\* Vec::sort on the elements of S
sort(S) ==
    CHOOSE f \in Orderings(S) :
        \A i \in 1..(Cardinality(S) - 1) : str_lt(f[i], f[i + 1])

\* ------------------------------------------------------------------------
\* is_valid_subdomain (src/src/sources/mod.rs)
\* ------------------------------------------------------------------------
MaxLabelLen == 63

invalid_full_patterns ==
    { <<".", ".">>, <<"@">>, <<"/", "/">>, <<"h", "t", "t", "p">>, <<"\\">>,
      <<"[">>, <<"]">>, <<"_">>, <<"*">>, <<"%">>, <<"?">>, <<"+">> }

part_ok_one_longer(part) ==
    /\ ~(Len(part) = 0 \/ Len(part) > MaxLabelLen + 1)
    /\ \A i \in 1..Len(part) : is_ascii_alphanumeric(part[i]) \/ part[i] = "-"
    /\ ~(starts_with(part, <<"-">>) \/ ends_with(part, <<"-">>))

\* the per-label checks of the loop over parts
part_ok(part) ==
    /\ ~(Len(part) = 0 \/ Len(part) > MaxLabelLen)
    /\ \A i \in 1..Len(part) : is_ascii_alphanumeric(part[i]) \/ part[i] = "-"
    /\ ~(starts_with(part, <<"-">>) \/ ends_with(part, <<"-">>))

is_valid_subdomain(subdomain, domain) ==
    LET basic_reject ==
            \/ ~ends_with(subdomain, <<".">> \o domain)
            \/ subdomain = domain
            \/ Len(subdomain) <= Len(domain) + 1
            \/ starts_with(subdomain, <<".">>)
            \/ ~(\A i \in 1..Len(subdomain) :
                    \/ is_ascii_alphanumeric(subdomain[i])
                    \/ subdomain[i] = "."
                    \/ subdomain[i] = "-")
        parts == split(subdomain, ".")
        subdomain_lower == to_lowercase(subdomain)
    IN  IF basic_reject THEN FALSE
        ELSE IF Len(parts) < 2 THEN FALSE
        ELSE IF \E k \in 1..Len(parts) : ~part_ok(parts[k]) THEN FALSE
        ELSE IF \E pat \in invalid_full_patterns : contains(subdomain_lower, pat)
             THEN FALSE
        ELSE TRUE

\* ------------------------------------------------------------------------
\* Inputs of a run
\* ------------------------------------------------------------------------
\* the target domain "example.com"
Domain == <<"e","x","a","m","p","l","e",".","c","o","m">>

\* the same domain as the user may also type it: "Example.com"
DomainMixed == <<"E","x","a","m","p","l","e",".","c","o","m">>
Domains == {Domain, DomainMixed}

\* hostnames the providers report for "example.com": "a.example.com",
\* "b.example.com" and "_dmarc.example.com"
HostA   == <<"a", ".">> \o Domain
HostB   == <<"b", ".">> \o Domain
HostBad == <<"_","d","m","a","r","c",".">> \o Domain
Hosts   == {HostA, HostB, HostBad}

\* the hostname "a.Example.com"
HostMixed == <<"a", ".">> \o DomainMixed

\* the configured providers (SourceType::name)
Sources == {"crtsh", "virustotal", "chaos"}

\* the providers among them that need an API key
CredentialSources == {"virustotal", "chaos"}

\* the hostnames of the pool that pass the validity filter
ValidHosts == { h \in Hosts : is_valid_subdomain(h, Domain) }

\* the providers that pass what they report through is_valid_subdomain
\* (crtsh.rs:39, chaos.rs:93); virustotal.rs:109-118 does not
FilteringSources == {"crtsh", "chaos"}

\* the subdomain labels the service behind provider s knows
Labels(s) ==
    IF s = "crtsh" THEN {<<"a">>}
    ELSE IF s = "chaos" THEN {<<"b">>}
    ELSE {<<"a">>, <<"_","d","m","a","r","c">>}

\* the names the service reports for domain d: under d as it was queried or
\* under its lowercase form
service_names(s, d) ==
    { l \o <<".">> \o dd : l \in Labels(s), dd \in {d, to_lowercase(d)} }

\* virustotal.rs:109-118: an id that ends with the domain is cut down to its
\* prefix, and the lowercased prefix is put in front of the domain again
virustotal_hostnames(ids, d) ==
    { to_lowercase(trim_end_matches(trim_end_matches(id, d), <<".">>))
        \o <<".">> \o d :
      id \in { x \in ids :
                 /\ ends_with(x, d)
                 /\ trim_end_matches(trim_end_matches(x, d), <<".">>) # <<>> } }

\* crtsh.rs:31-45, chaos.rs:90-96: a name is lowercased and kept when it
\* passes is_valid_subdomain
filtering_hostnames(names, d) ==
    { n \in { to_lowercase(x) : x \in names } : is_valid_subdomain(n, d) }

\* the hostnames provider s can report for domain d
ProviderHosts ==
    [s \in Sources, d \in Domains |->
        IF s \in FilteringSources
        THEN filtering_hostnames(service_names(s, d), d)
        ELSE virustotal_hostnames(service_names(s, d), d)]

NoOutcome == [kind |-> "None", domains |-> {}, source_name |-> "", elapsed |-> 0]
NoReturn == [kind |-> "None", domains |-> {}]

\* how long a provider's enumerate takes once invoked.  A call that is still
\* pending when the per-task timer has fired is dropped by timeout(), so its
\* latency is only told apart up to the timeout; Never: no completion before.
Never == -1
Latencies(timeout_duration) == (0..timeout_duration) \cup {Never}

\* the concurrency limits: none, fewer than the sources, one slot per source
\* (more slots than sources behave as one slot per source)
Threads == 0..Cardinality(Sources)

VARIABLES
    proxy,                 \* Config.proxy: "none" or "some"
    threads,               \* Config.threads
    timeout,               \* Config.timeout
    max_enumeration_time,  \* Config.max_enumeration_time
    pc,                    \* position in enumerate_domain
    now,                   \* the clock
    proxy_test,            \* result of test_proxy: "untested", "ok", "failed"
    proxy_checks,          \* number of calls of test_proxy
    deadline,              \* instant at which overall_timeout elapses
    permits,               \* free permits of the semaphore
    active_tasks,          \* Runner.active_tasks
    status,                \* per source: state of its task future
    source_start,          \* per source: source_start of its task
    latency,               \* per source: time its enumerate call takes
    returned,              \* per source: the value its enumerate returned
    outcome,               \* per source: the value its task returned
    all_subdomains,
    source_map,
    source_timings,
    completed_sources,
    total_sources,
    loop_end,              \* how the drain loop ended
    result,                \* return value of enumerate_domain
    args_domain,           \* the domain argument of enumerate_domain
    api_keys,              \* Config.api_keys: the sources that have a key
    requests,              \* the sources that have sent a network request
    into_iter,             \* order in which the returned set yields its elements
    hostname,              \* argument of a call of is_valid_subdomain
    valid,                 \* return value of that call
    source_stats,          \* per source: the hit count of the statistics
    clients,               \* per source: the HTTP client it sends with
    retry_source,          \* the provider whose enumerate is followed
    url_index,             \* its endpoint loop: index of the current url
    retry_count,           \* its retry_count
    attempts,              \* the requests it has made, in order
    enumerated             \* the value its enumerate returned

vars == <<proxy, threads, timeout, max_enumeration_time, pc, now, proxy_test,
          proxy_checks, deadline, permits, active_tasks, status, source_start,
          latency, returned, outcome,
          all_subdomains, source_map, source_timings, completed_sources,
          total_sources, loop_end, result, args_domain, api_keys, requests,
          into_iter, hostname, valid, source_stats, clients, retry_source,
          url_index, retry_count, attempts, enumerated>>

config == <<proxy, threads, timeout, max_enumeration_time, args_domain,
            api_keys, clients>>
filter_call == <<hostname, valid>>
retry_loop == <<retry_source, url_index, retry_count, attempts, enumerated>>
aggregate == <<all_subdomains, source_map, source_timings, completed_sources>>

NoResult == [kind |-> "None", value |-> {}]

skips_never(s, keys) == FALSE

\* self.api_keys.is_empty() of a provider that needs a key (chaos.rs:41,
\* virustotal.rs:57)
skips(s, keys) == s \in CredentialSources /\ s \notin keys

\* what the enumerate of provider s can return: Ok(set of hostnames), or the
\* Err arm of its Result type, which the runner handles for every provider;
\* without its key a provider returns Ok with no hostname
ProviderResults(s) ==
    IF skips(s, api_keys)
    THEN {[kind |-> "Ok", domains |-> {}]}
    ELSE [kind : {"Ok"}, domains : SUBSET ProviderHosts[s, args_domain]]
         \cup [kind : {"Err"}, domains : {{}}]

\* how long the enumerate of provider s takes: no time without its key
ProviderLatencies(s) ==
    IF skips(s, api_keys) THEN {0} ELSE Latencies(timeout)

\* Runner::new and the entry of enumerate_domain (lines 72-75)
Configured ==
    /\ proxy \in {"none", "some"}
    /\ threads \in Threads
    /\ timeout \in 1..MaxTimeout
    /\ max_enumeration_time \in 1..MaxDeadline

\* mod.rs:52-73: the client built by create_client_with_proxy sends through
\* the proxy it is given, directly when it is given none
create_client_with_proxy(p) == [proxy |-> p]

\* mod.rs:47-49
create_client == create_client_with_proxy("none")

\* the state of a run before its first step.  Every source builds its client
\* with create_client() in its new() (crtsh.rs:24-29); the client that
\* Runner::new builds with the proxy (runner.rs:32-34) is dropped at once.
Fresh ==
    /\ now = 0
    /\ proxy_test = "untested"
    /\ proxy_checks = 0
    /\ deadline = 0
    /\ permits = 0
    /\ active_tasks = 0
    /\ status = [s \in Sources |-> "none"]
    /\ source_start = [s \in Sources |-> 0]
    /\ latency = [s \in Sources |-> Never]
    /\ returned = [s \in Sources |-> NoReturn]
    /\ outcome = [s \in Sources |-> NoOutcome]
    /\ all_subdomains = {}
    /\ source_map = [h \in {} |-> {}]
    /\ source_timings = [s \in {} |-> 0]
    /\ completed_sources = 0
    /\ total_sources = 0
    /\ loop_end = "none"
    /\ result = NoResult
    /\ requests = {}
    /\ into_iter = <<>>
    /\ source_stats = [s \in {} |-> 0]
    /\ clients = [s \in Sources |-> create_client]
    /\ retry_source = "none"
    /\ url_index = 0
    /\ retry_count = 0
    /\ attempts = <<>>
    /\ enumerated = NoReturn

\* a run for "example.com" with a key for every provider that needs one
Init ==
    /\ Configured
    /\ args_domain = Domain
    /\ api_keys = CredentialSources
    /\ pc = "start"
    /\ Fresh
    /\ hostname = <<>>
    /\ valid = FALSE

\* ------------------------------------------------------------------------
\* test_proxy and the creation of the tasks
\* ------------------------------------------------------------------------
\* test_proxy (lines 49-69) and the `?` of line 78: without a proxy the check
\* succeeds at once; with a proxy the request takes one tick and succeeds or
\* fails
TestProxy ==
    /\ pc = "start"
    /\ proxy_checks' = proxy_checks + 1
    /\ \/ /\ proxy = "none"
          /\ proxy_test' = "ok"
          /\ pc' = "dispatch"
          /\ UNCHANGED <<now, result>>
       \/ /\ proxy = "some"
          /\ now' = now + 1
          /\ \/ /\ proxy_test' = "ok"
                /\ pc' = "dispatch"
                /\ UNCHANGED result
             \/ /\ proxy_test' = "failed"
                /\ pc' = "done"
                /\ result' = [kind |-> "Err", value |-> {}]
    /\ UNCHANGED <<config, deadline, permits, active_tasks, status,
                   source_start, latency, returned, outcome, aggregate,
                   total_sources, loop_end, requests, into_iter, filter_call,
                   source_stats, retry_loop>>

CreateTasks_before_check ==
    /\ pc \in {"start", "dispatch"}
    /\ permits' = threads
    /\ status' = [s \in Sources |-> "queued"]
    /\ deadline' = now + max_enumeration_time
    /\ completed_sources' = 0
    /\ total_sources' = Cardinality(Sources)
    /\ pc' = "drain"
    /\ UNCHANGED <<config, now, proxy_test, proxy_checks, active_tasks,
                   source_start, latency, returned, outcome, all_subdomains,
                   source_map, source_timings, loop_end, result, requests,
                   into_iter, filter_call,
                   source_stats, retry_loop>>

\* lines 84-142: the semaphore, one task per source pushed on the
\* FuturesUnordered, the overall timer and the counters
CreateTasks ==
    /\ pc = "dispatch"
    /\ permits' = threads
    /\ status' = [s \in Sources |-> "queued"]
    /\ deadline' = now + max_enumeration_time
    /\ completed_sources' = 0
    /\ total_sources' = Cardinality(Sources)
    /\ pc' = "drain"
    /\ UNCHANGED <<config, now, proxy_test, proxy_checks, active_tasks,
                   source_start, latency, returned, outcome, all_subdomains,
                   source_map, source_timings, loop_end, result, requests,
                   into_iter, filter_call,
                   source_stats, retry_loop>>

\* ------------------------------------------------------------------------
\* The task wrapper (lines 97-131)
\* ------------------------------------------------------------------------
acquire_ready_unbounded(p) == TRUE

\* sem.acquire() is ready when a permit is free
acquire_ready(p) == p > 0

\* the first poll of a provider's enumerate sends its request, unless the
\* provider returns before for want of a key
sent_requests(rs, s, keys) == IF skips(s, keys) THEN rs ELSE rs \cup {s}

TaskAcquire_records_start(s) ==
    /\ pc = "drain"
    /\ status[s] = "queued"
    /\ acquire_ready(permits)
    /\ permits' = permits - 1
    /\ active_tasks' = active_tasks + 1
    /\ status' = [status EXCEPT ![s] = "running"]
    /\ source_start' = [source_start EXCEPT ![s] = now]
    /\ \E l \in ProviderLatencies(s) : latency' = [latency EXCEPT ![s] = l]
    /\ requests' = sent_requests(requests, s, api_keys)
    /\ source_timings' = [n \in (DOMAIN source_timings) \cup {s} |->
                              IF n = s THEN 0 ELSE source_timings[n]]
    /\ UNCHANGED <<config, pc, now, proxy_test, proxy_checks, deadline,
                   returned, outcome, all_subdomains, source_map,
                   completed_sources, total_sources, loop_end,
                   result, into_iter, filter_call,
                   source_stats, retry_loop>>

\* lines 99-105: a polled task takes a permit, counts itself active and
\* invokes the provider.  The order in which waiting tasks obtain permits is
\* left open.
TaskAcquire(s) ==
    /\ pc = "drain"
    /\ status[s] = "queued"
    /\ acquire_ready(permits)
    /\ permits' = permits - 1
    /\ active_tasks' = active_tasks + 1
    /\ status' = [status EXCEPT ![s] = "running"]
    /\ source_start' = [source_start EXCEPT ![s] = now]
    /\ \E l \in ProviderLatencies(s) : latency' = [latency EXCEPT ![s] = l]
    /\ requests' = sent_requests(requests, s, api_keys)
    /\ UNCHANGED <<config, pc, now, proxy_test, proxy_checks, deadline,
                   returned, outcome, aggregate, total_sources, loop_end,
                   result, into_iter, filter_call,
                   source_stats, retry_loop>>

\* lines 107-119: the provider completed before the timer
returned_outcome(r, name, elapsed) ==
    IF r.kind = "Ok"
    THEN [kind |-> "Ok", domains |-> r.domains, source_name |-> name,
          elapsed |-> elapsed]
    ELSE [kind |-> "Err", domains |-> {}, source_name |-> name,
          elapsed |-> elapsed]

timed_out_outcome_as_error(name, timeout_duration) ==
    [kind |-> "Err", domains |-> {}, source_name |-> name,
     elapsed |-> timeout_duration]

\* lines 120-125: the per-task timer elapsed first
timed_out_outcome(name, timeout_duration) ==
    [kind |-> "Ok", domains |-> {}, source_name |-> name,
     elapsed |-> timeout_duration]

\* ------------------------------------------------------------------------
\* The drain loop (lines 144-196)
\* ------------------------------------------------------------------------
merge_source_map_keeps_first(sm, domains, name) ==
    [h \in (DOMAIN sm) \cup domains |->
        IF h \in DOMAIN sm THEN sm[h] ELSE {name}]

merge_source_map_last_only(sm, domains, name) ==
    [h \in domains |-> {name}]

merge_source_map_overwrite(sm, domains, name) ==
    [h \in (DOMAIN sm) \cup domains |->
        IF h \in domains THEN {name} ELSE sm[h]]

\* lines 156-158: source_map.entry(subdomain).or_default().insert(source_name)
merge_source_map(sm, domains, name) ==
    [h \in (DOMAIN sm) \cup domains |->
        IF h \in domains
        THEN (IF h \in DOMAIN sm THEN sm[h] ELSE {}) \cup {name}
        ELSE sm[h]]

merge_all_subdomains_first_only(all, domains) ==
    IF all = {} THEN domains ELSE all

merge_all_subdomains_with_domain(all, domains) == all \cup domains \cup {Domain}

merge_all_subdomains_overwrite(all, domains) == domains

\* line 159: all_subdomains.insert(subdomain)
merge_all_subdomains(all, domains) == all \cup domains

\* line 153: source_timings.insert(source_name, elapsed)
merge_source_timings(st, name, elapsed) ==
    [n \in (DOMAIN st) \cup {name} |-> IF n = name THEN elapsed ELSE st[n]]

count_outcome_only_ok(n, out) == IF out.kind = "Ok" THEN n + 1 ELSE n

\* line 149: every outcome taken from the stream is counted
count_outcome(n, out) == n + 1

Consume_times_failures(out) ==
    /\ completed_sources' = count_outcome(completed_sources, out)
    /\ source_timings' =
          merge_source_timings(source_timings, out.source_name, out.elapsed)
    /\ IF out.kind = "Ok"
       THEN /\ source_map' = merge_source_map(source_map, out.domains, out.source_name)
            /\ all_subdomains' = merge_all_subdomains(all_subdomains, out.domains)
       ELSE UNCHANGED <<all_subdomains, source_map>>

\* lines 148-181: the handler of `result = tasks.next()` for Some(result)
Consume(out) ==
    /\ completed_sources' = count_outcome(completed_sources, out)
    /\ IF out.kind = "Ok"
       THEN /\ source_timings' =
                   merge_source_timings(source_timings, out.source_name, out.elapsed)
            /\ source_map' = merge_source_map(source_map, out.domains, out.source_name)
            /\ all_subdomains' = merge_all_subdomains(all_subdomains, out.domains)
       ELSE UNCHANGED <<all_subdomains, source_map, source_timings>>

TaskReturns_retry_on_error(s, out) ==
    /\ active_tasks' = active_tasks - 1
    /\ permits' = permits + 1
    /\ status' = [status EXCEPT ![s] = IF out.kind = "Err" THEN "queued"
                                                           ELSE "done"]
    /\ outcome' = [outcome EXCEPT ![s] = out]
    /\ Consume(out)
    /\ UNCHANGED <<config, pc, now, proxy_test, proxy_checks, deadline,
                   source_start, latency, total_sources, loop_end, result,
                   requests, into_iter, filter_call,
                   source_stats, retry_loop>>

TaskReturns_abort_on_error(s, out) ==
    /\ active_tasks' = active_tasks - 1
    /\ permits' = permits + 1
    /\ status' = [status EXCEPT ![s] = "done"]
    /\ outcome' = [outcome EXCEPT ![s] = out]
    /\ Consume(out)
    /\ pc' = IF out.kind = "Err" THEN "done" ELSE pc
    /\ result' = IF out.kind = "Err" THEN [kind |-> "Err", value |-> {}]
                                     ELSE result
    /\ UNCHANGED <<config, now, proxy_test, proxy_checks, deadline,
                   source_start, latency, total_sources, loop_end, requests,
                   into_iter, filter_call,
                   source_stats, retry_loop>>

\* lines 129-130 and the drop of _permit when the task future returns; the
\* FuturesUnordered hands the returned value to the loop in the same poll
TaskReturns(s, out) ==
    /\ active_tasks' = active_tasks - 1
    /\ permits' = permits + 1
    /\ status' = [status EXCEPT ![s] = "done"]
    /\ outcome' = [outcome EXCEPT ![s] = out]
    /\ Consume(out)
    /\ UNCHANGED <<config, pc, now, proxy_test, proxy_checks, deadline,
                   source_start, latency, total_sources, loop_end, result,
                   requests, into_iter, filter_call,
                   source_stats, retry_loop>>

\* the provider call of a running task has completed
provider_ready(s) ==
    /\ status[s] = "running"
    /\ latency[s] # Never
    /\ now - source_start[s] >= latency[s]

timer_due_from_creation(s) ==
    /\ status[s] \in {"queued", "running"}
    /\ now - (deadline - max_enumeration_time) >= timeout

timer_due_only_responders(s) ==
    /\ status[s] = "running"
    /\ latency[s] # Never
    /\ now - source_start[s] >= timeout

\* the per-task timer of a running task has elapsed
timer_due(s) ==
    /\ status[s] = "running"
    /\ now - source_start[s] >= timeout

\* the tasks.next() branch of the select, the provider of task s having
\* completed with r
ProviderCompletes(s) ==
    /\ pc = "drain"
    /\ provider_ready(s)
    /\ \E r \in ProviderResults(s) :
          /\ returned' = [returned EXCEPT ![s] = r]
          /\ TaskReturns(s, returned_outcome(r, s, now - source_start[s]))

\* the tasks.next() branch of the select, the per-task timer of task s having
\* elapsed with the provider still pending
TaskTimesOut(s) ==
    /\ pc = "drain"
    /\ timer_due(s)
    /\ UNCHANGED returned
    /\ TaskReturns(s, timed_out_outcome(s, timeout))

filtered_unfiltered(all, domain) == all

\* lines 198-202: the hostnames that pass the filter
filtered(all, domain) == { h \in all : is_valid_subdomain(h, domain) }

\* line 239: filtered.into_iter().collect() into the returned HashSet
collect(v) == Range(v)

\* lines 213-223 (Config.verbose set): for each source named in source_map
\* the number of entries of source_map that name it
hit_counts(sm) ==
    [s \in UNION { sm[h] : h \in DOMAIN sm } |->
        Cardinality({ h \in DOMAIN sm : s \in sm[h] })]

Finalize_keeps_permits(how) ==
    /\ loop_end' = how
    /\ result' = [kind |-> "Ok",
                  value |-> collect(sort(filtered(all_subdomains, args_domain)))]
    /\ into_iter' \in Orderings(result'.value)
    /\ source_stats' = hit_counts(source_map)
    /\ pc' = "done"
    /\ status' = [s \in Sources |->
                    IF status[s] = "done" THEN "done" ELSE "dropped"]
    /\ UNCHANGED <<config, now, proxy_test, proxy_checks, deadline, permits,
                   active_tasks, source_start, latency, returned, outcome,
                   aggregate, total_sources, requests, filter_call,
                   retry_loop>>

\* leaving the loop: finalization and return.  The returned HashSet yields
\* its elements in an order fixed by its hasher's random keys, not by the
\* sort of line 203.  The task futures still in the
\* FuturesUnordered are dropped with it; a dropped running task gives back its
\* permit (drop of _permit) but never reaches the fetch_sub of line 129.
Finalize(how) ==
    /\ loop_end' = how
    /\ result' = [kind |-> "Ok",
                  value |-> collect(sort(filtered(all_subdomains, args_domain)))]
    /\ into_iter' \in Orderings(result'.value)
    /\ source_stats' = hit_counts(source_map)
    /\ pc' = "done"
    /\ status' = [s \in Sources |->
                    IF status[s] = "done" THEN "done" ELSE "dropped"]
    /\ permits' = permits + Cardinality({s \in Sources : status[s] = "running"})
    /\ UNCHANGED <<config, now, proxy_test, proxy_checks, deadline,
                   active_tasks, source_start, latency, returned, outcome,
                   aggregate, total_sources, requests, filter_call,
                   retry_loop>>

\* lines 182: tasks.next() yields None once every task has returned
StreamExhausted ==
    /\ pc = "drain"
    /\ \A s \in Sources : status[s] = "done"
    /\ Finalize("exhausted")

timer_elapsed_late == now > deadline

\* the overall timer has elapsed
timer_elapsed == now >= deadline

DeadlineBranch_after_first_outcome ==
    /\ pc = "drain"
    /\ timer_elapsed
    /\ completed_sources > 0
    /\ Finalize("deadline")

\* lines 185-194: the overall_timeout branch of the select.  select! polls its
\* branches in no fixed order, so this branch competes with tasks.next()
\* whenever both are ready.
DeadlineBranch ==
    /\ pc = "drain"
    /\ timer_elapsed
    /\ Finalize("deadline")

\* time passes while the loop has nothing to do: no timer is due, no task can
\* take a permit and the stream is not exhausted
Tick ==
    /\ pc = "drain"
    /\ ~timer_elapsed
    /\ \A s \in Sources : ~provider_ready(s) /\ ~timer_due(s)
    /\ ~(\E s \in Sources : status[s] = "queued" /\ acquire_ready(permits))
    /\ \E s \in Sources : status[s] # "done"
    /\ now' = now + 1
    /\ UNCHANGED <<config, pc, proxy_test, proxy_checks, deadline, permits,
                   active_tasks, status, source_start, latency, returned,
                   outcome, aggregate, total_sources, loop_end, result,
                   requests, into_iter, filter_call,
                   source_stats, retry_loop>>

Next ==
    \/ TestProxy
    \/ CreateTasks
    \/ \E s \in Sources : TaskAcquire(s)
    \/ \E s \in Sources : ProviderCompletes(s)
    \/ \E s \in Sources : TaskTimesOut(s)
    \/ StreamExhausted
    \/ DeadlineBranch
    \/ Tick

Spec == Init /\ [][Next]_vars

\* a run for either spelling of the domain, with the keys of any set of the
\* providers that need one
InitInputs ==
    /\ Configured
    /\ args_domain \in Domains
    /\ api_keys \in SUBSET CredentialSources
    /\ pc = "start"
    /\ Fresh
    /\ hostname = <<>>
    /\ valid = FALSE

SpecInputs == InitInputs /\ [][Next]_vars

\* ------------------------------------------------------------------------
\* Runs under a scheduler that keeps polling.  #[tokio::main] drives
\* enumerate_domain until it returns and the runtime's timers fire, so a step
\* that stays possible is eventually taken.  The overall limit is either the
\* shortest one or long enough for every source to use its whole timeout one
\* after the other.  No API key is configured: the sources that need one
\* return at once, the other one answers at any time or never.
MaxLiveTimeout == 2

LongEnough(timeout_duration) == Cardinality(Sources) * timeout_duration + 1

InitLive ==
    /\ proxy \in {"none", "some"}
    /\ threads \in Threads
    /\ timeout \in 1..MaxLiveTimeout
    /\ max_enumeration_time \in {1, LongEnough(timeout)}
    /\ args_domain = Domain
    /\ api_keys = {}
    /\ pc = "start"
    /\ Fresh
    /\ hostname = <<>>
    /\ valid = FALSE

SpecLive == InitLive /\ [][Next]_vars /\ WF_vars(Next)

\* ------------------------------------------------------------------------
\* is_valid_subdomain on its own: one call on a hostname and a domain
\* ------------------------------------------------------------------------
\* "www.example.com", "xn--sub.example.com", "sub..example.com",
\* "-bad.example.com", "http.example.com", "HtTp.example.com"
HostWww       == <<"w","w","w",".">> \o Domain
HostPunycode  == <<"x","n","-","-","s","u","b",".">> \o Domain
HostDoubleDot == <<"s","u","b",".",".">> \o Domain
HostHyphen    == <<"-","b","a","d",".">> \o Domain
HostHttp      == <<"h","t","t","p",".">> \o Domain
HostHttpMixed == <<"H","t","T","p",".">> \o Domain

\* a label of n characters
Label(n) == [i \in 1..n |-> "a"]

\* a label of the greatest length and one longer, in front of ".example.com"
HostFullLabel == Label(MaxLabelLen) \o <<".">> \o Domain
HostLongLabel == Label(MaxLabelLen + 1) \o <<".">> \o Domain

\* the strings of at most n characters over a small alphabet
Alphabet == {"a", "Z", "-", ".", "_"}
Words(n) == UNION { [1..k -> Alphabet] : k \in 0..n }

\* what follows the word: ".example.com", "example.com", ".Example.com",
\* ".com"
Tails == { <<".">> \o Domain, Domain, <<".">> \o DomainMixed,
           <<".","c","o","m">> }

\* the hostnames is_valid_subdomain is called on
Candidates ==
    { HostWww, HostPunycode, HostDoubleDot, HostHyphen, HostHttp,
      HostHttpMixed, HostFullLabel, HostLongLabel }
    \cup { w \o tl : w \in Words(MaxWordLen), tl \in Tails }

\* the fixed configuration of a state in which no run takes place
NoRun ==
    /\ proxy = "none"
    /\ threads = 0
    /\ timeout = 1
    /\ max_enumeration_time = 1
    /\ Fresh

InitValid ==
    /\ NoRun
    /\ api_keys = {}
    /\ pc = "is_valid_subdomain"
    /\ args_domain \in Domains
    /\ hostname \in Candidates
    /\ valid = FALSE

\* the call is_valid_subdomain(hostname, args_domain) and its return
IsValidSubdomain ==
    /\ pc = "is_valid_subdomain"
    /\ valid' = is_valid_subdomain(hostname, args_domain)
    /\ pc' = "returned"
    /\ UNCHANGED <<config, now, proxy_test, proxy_checks, deadline, permits,
                   active_tasks, status, source_start, latency, returned,
                   outcome, aggregate, total_sources, loop_end, result,
                   requests, into_iter, hostname, source_stats, retry_loop>>

NextValid == IsValidSubdomain

SpecValid == InitValid /\ [][NextValid]_vars

\* ------------------------------------------------------------------------
\* The merge of the drain loop on its own: outcomes merged into the
\* aggregate in any order, an outcome possibly more than once
\* ------------------------------------------------------------------------
InitMerge ==
    /\ NoRun
    /\ api_keys = CredentialSources
    /\ args_domain = Domain
    /\ pc = "merge"
    /\ hostname = <<>>
    /\ valid = FALSE

\* lines 148-181 on the outcome of the task of source s: what its provider
\* returned at once, or after the whole per-task timeout
MergeOutcome(s) ==
    /\ pc = "merge"
    /\ outcome[s] = NoOutcome
    /\ completed_sources < MaxMerges
    /\ \E r \in ProviderResults(s), e \in {0, timeout} :
          /\ outcome' = [outcome EXCEPT ![s] = returned_outcome(r, s, e)]
          /\ Consume(returned_outcome(r, s, e))
    /\ UNCHANGED <<config, pc, now, proxy_test, proxy_checks, deadline,
                   permits, active_tasks, status, source_start, latency,
                   returned, total_sources, loop_end, result, requests,
                   into_iter, filter_call,
                   source_stats, retry_loop>>

\* lines 148-181 once more on an outcome that was merged before
MergeAgain(s) ==
    /\ pc = "merge"
    /\ outcome[s] # NoOutcome
    /\ completed_sources < MaxMerges
    /\ Consume(outcome[s])
    /\ UNCHANGED <<config, pc, now, proxy_test, proxy_checks, deadline,
                   permits, active_tasks, status, source_start, latency,
                   returned, outcome, total_sources, loop_end, result,
                   requests, into_iter, filter_call,
                   source_stats, retry_loop>>

NextMerge ==
    \/ \E s \in Sources : MergeOutcome(s)
    \/ \E s \in Sources : MergeAgain(s)

SpecMerge == InitMerge /\ [][NextMerge]_vars

\* ------------------------------------------------------------------------
\* The retry loops of ThreatCrowdSource::enumerate (threatcrowd.rs) and
\* BufferOverSource::enumerate (bufferover.rs), on their own
\* ------------------------------------------------------------------------
MAX_RETRIES == 3

RetrySources == {"threatcrowd", "bufferover"}

\* the endpoints a source queries, in the order it tries them
urls(src) ==
    IF src = "threatcrowd"
    THEN <<"www.threatcrowd.org">>
    ELSE <<"dns.bufferover.run", "tls.bufferover.run">>

\* the ways try_request fails: the request is not sent, a server error
\* status, another status that is no success, a body that cannot be read or
\* parsed, an error reported in the Meta of the body
Failures(src) ==
    IF src = "threatcrowd"
    THEN {"send", "server_error", "status", "read", "parse"}
    ELSE {"send", "server_error", "status", "parse", "api_error"}

\* the entries of a parsed body: hostnames for ThreatCrowd, "ip,hostname"
\* records (or a record without a comma) for BufferOver
Entries(src) ==
    IF src = "threatcrowd"
    THEN {HostMixed, HostBad}
    ELSE {<<"1", ",">> \o HostMixed, <<"1", ",">> \o HostBad, <<"1">>}

\* the response_code of a ThreatCrowd body; BufferOver has none
ResponseCodes(src) == IF src = "threatcrowd" THEN {"1", "0"} ELSE {""}

\* what one call of try_request can return
try_request(src) ==
    [kind : {"Ok"}, error : {""}, response_code : ResponseCodes(src),
     records : SUBSET Entries(src)]
    \cup [kind : {"Err"}, error : Failures(src), response_code : {""},
          records : {{}}]

\* threatcrowd.rs:57-66 and bufferover.rs:91-101: the hostnames taken from a
\* parsed body
body_hostnames(src, data, d) ==
    IF src = "threatcrowd"
    THEN IF data.response_code = "1"
         THEN filtering_hostnames(data.records, d)
         ELSE {}
    ELSE filtering_hostnames(
            { split(r, ",")[2] :
                r \in { x \in data.records : Len(split(x, ",")) >= 2 } }, d)

while_condition_inclusive(n) == n <= MAX_RETRIES

\* threatcrowd.rs:49, bufferover.rs:61: while retry_count < MAX_RETRIES
while_condition(n) == n < MAX_RETRIES

InitRetry ==
    /\ NoRun
    /\ api_keys = {}
    /\ args_domain = Domain
    /\ pc = "enumerate"
    /\ hostname = <<>>
    /\ valid = FALSE

\* the entry of enumerate up to its first loop test
Enumerate(src) ==
    /\ pc = "enumerate"
    /\ retry_source' = src
    /\ url_index' = 1
    /\ retry_count' = 0
    /\ attempts' = <<>>
    /\ pc' = "retry"
    /\ UNCHANGED enumerated
    /\ UNCHANGED <<config, now, proxy_test, proxy_checks, deadline, permits,
                   active_tasks, status, source_start, latency, returned,
                   outcome, aggregate, total_sources, loop_end, result,
                   requests, into_iter, filter_call, source_stats>>

\* one pass of the while loop: the delay if this is not the first attempt on
\* the endpoint, try_request, and the match on its result
TryRequest ==
    /\ pc = "retry"
    /\ while_condition(retry_count)
    /\ \E r \in try_request(retry_source) :
          /\ attempts' = Append(attempts,
                                [url |-> urls(retry_source)[url_index],
                                 delayed |-> retry_count > 0,
                                 kind |-> r.kind,
                                 error |-> r.error])
          /\ IF r.kind = "Ok"
             THEN /\ enumerated' =
                        [kind |-> "Ok",
                         domains |-> body_hostnames(retry_source, r, args_domain)]
                  /\ pc' = "returned"
                  /\ UNCHANGED <<retry_source, url_index, retry_count>>
             ELSE /\ retry_count' = retry_count + 1
                  /\ UNCHANGED <<retry_source, url_index, enumerated, pc>>
    /\ UNCHANGED <<config, now, proxy_test, proxy_checks, deadline, permits,
                   active_tasks, status, source_start, latency, returned,
                   outcome, aggregate, total_sources, loop_end, result,
                   requests, into_iter, filter_call, source_stats>>

\* the while loop ends without a response: BufferOver goes on to its next
\* endpoint if it has one, otherwise enumerate returns Ok with no hostname
\* (threatcrowd.rs:83-84, bufferover.rs:81-87)
EndpointFailed ==
    /\ pc = "retry"
    /\ ~while_condition(retry_count)
    /\ IF url_index < Len(urls(retry_source))
       THEN /\ url_index' = url_index + 1
            /\ retry_count' = 0
            /\ UNCHANGED <<enumerated, pc>>
       ELSE /\ enumerated' = [kind |-> "Ok", domains |-> {}]
            /\ pc' = "returned"
            /\ UNCHANGED <<url_index, retry_count>>
    /\ UNCHANGED <<retry_source, attempts>>
    /\ UNCHANGED <<config, now, proxy_test, proxy_checks, deadline, permits,
                   active_tasks, status, source_start, latency, returned,
                   outcome, aggregate, total_sources, loop_end, result,
                   requests, into_iter, filter_call, source_stats>>

NextRetry ==
    \/ \E src \in RetrySources : Enumerate(src)
    \/ TryRequest
    \/ EndpointFailed

SpecRetry == InitRetry /\ [][NextRetry]_vars

\* ------------------------------------------------------------------------
\* Properties
\* ------------------------------------------------------------------------
\* the tasks that hold a permit of the semaphore
PermitHolders == { s \in Sources : status[s] = "running" }

\* the value a task returns when its per-task timer wins
TimedOut(s) == status[s] = "done" /\ returned[s] = NoReturn

\* C1: at no instant do more tasks hold a permit than Config.threads
C1_ConcurrencyBound == Cardinality(PermitHolders) <= threads

\* the one permit is held while a task waits and another already returned
C1_Witness ==
    /\ pc = "drain"
    /\ threads = 1
    /\ Cardinality(PermitHolders) = 1
    /\ \E s \in Sources : status[s] = "queued"
    /\ \E s \in Sources : status[s] = "done"

\* C2: every hostname of the returned set passes is_valid_subdomain against
\* the domain, whatever the providers returned and however the loop ended
C2_OutputValid ==
    result.kind = "Ok" =>
        \A h \in result.value : h \in ValidHosts

\* an unfiltered provider reported an invalid hostname; the loop ended by the
\* deadline and the valid hostname alone is returned
C2_Witness ==
    /\ pc = "done"
    /\ loop_end = "deadline"
    /\ HostBad \in all_subdomains
    /\ result = [kind |-> "Ok", value |-> {HostA}]

\* C3: enumerate_domain returns Err exactly when the proxy check failed;
\* provider errors, per-task timeouts and the global deadline end in Ok
C3_ErrorOnlyFromProxy ==
    /\ pc = "done" =>
          /\ result.kind \in {"Ok", "Err"}
          /\ result.kind = "Err" <=> proxy_test = "failed"
    /\ pc # "done" => result.kind = "None"

\* a run with a provider error, a per-task timeout and a task abandoned at the
\* deadline that returned Ok
C3_Witness ==
    /\ pc = "done"
    /\ result.kind = "Ok"
    /\ loop_end = "deadline"
    /\ \E s \in Sources : returned[s].kind = "Err"
    /\ \E s \in Sources : TimedOut(s)
    /\ \E s \in Sources : status[s] = "dropped"

\* C4: the proxy check runs once, before any task exists; when it fails the
\* run returns the error, no provider is invoked and no permit is taken
C4_ProxyCheckFirst ==
    /\ proxy_checks = (IF pc = "start" THEN 0 ELSE 1)
    /\ (\/ \E s \in Sources : status[s] # "none"
        \/ permits # 0
        \/ active_tasks # 0) => proxy_test = "ok"
    /\ proxy_test = "failed" =>
          /\ pc = "done"
          /\ result.kind = "Err"
          /\ \A s \in Sources :
                /\ status[s] = "none"
                /\ returned[s] = NoReturn
                /\ outcome[s] = NoOutcome
          /\ permits = 0
          /\ active_tasks = 0

\* the proxy check failed and the run ended with the error
C4_Witness ==
    /\ proxy = "some"
    /\ proxy_test = "failed"
    /\ pc = "done"
    /\ result.kind = "Err"
    /\ now > 0

\* C5: when one provider fails and the others succeed, the run returns Ok with
\* exactly the valid hostnames of the succeeding providers
C5_ErrorIsolation ==
    (/\ pc = "done"
     /\ \E x \in Sources :
           /\ returned[x].kind = "Err"
           /\ \A y \in Sources \ {x} : returned[y].kind = "Ok")
    => /\ result.kind = "Ok"
       /\ result.value =
             UNION { returned[y].domains : y \in Sources } \cap ValidHosts

\* crtsh failed, virustotal reported the hostname first, chaos nothing
C5_Witness ==
    /\ pc = "done"
    /\ returned["crtsh"].kind = "Err"
    /\ returned["virustotal"] = [kind |-> "Ok", domains |-> {HostA}]
    /\ returned["chaos"] = [kind |-> "Ok", domains |-> {}]
    /\ outcome["virustotal"].elapsed < outcome["chaos"].elapsed
    /\ result = [kind |-> "Ok", value |-> {HostA}]

\* C6: a task whose provider call has not completed when the per-task timer
\* expires returns Ok with no hostname, its name and the configured timeout as
\* elapsed time; the run is not aborted
C6_TimeoutIsEmptySuccess ==
    \A s \in Sources :
        (status[s] = "done" /\ latency[s] = Never)
        => /\ outcome[s] = [kind |-> "Ok", domains |-> {}, source_name |-> s,
                            elapsed |-> timeout]
           /\ s \in DOMAIN source_timings
           /\ source_timings[s] = timeout
           /\ result.kind # "Err"

\* a provider never answered, its task timed out and the run went on to
\* return another provider's hostname
C6_Witness ==
    /\ pc = "done"
    /\ \E s \in Sources : status[s] = "done" /\ latency[s] = Never
    /\ result = [kind |-> "Ok", value |-> {HostA}]

\* C7: once the overall timer has elapsed no outcome is consumed any more:
\* completed_sources and all_subdomains stay as they are
C7_NothingConsumedAfterDeadline ==
    [][(pc = "drain" /\ timer_elapsed) =>
          /\ completed_sources' = completed_sources
          /\ all_subdomains' = all_subdomains]_vars

\* C8: partial result.  Three slots, provider crtsh answers {a.example.com}
\* before the deadline, virustotal would answer after it, chaos never, the
\* per-task timeout is longer than the deadline: the run returns exactly
\* {a.example.com} with 1 of 3 sources completed.  (1 s, 1.5 s, 2 s of the
\* scenario are the ticks 1, 2, 3.)
C8_PartialResult ==
    (/\ pc = "done"
     /\ proxy_test = "ok"
     /\ threads >= 3
     /\ max_enumeration_time = 2
     /\ timeout > max_enumeration_time
     /\ latency["crtsh"] = 1
     /\ returned["crtsh"] = [kind |-> "Ok", domains |-> {HostA}]
     /\ latency["virustotal"] = 3
     /\ latency["chaos"] = Never)
    => /\ result = [kind |-> "Ok", value |-> {HostA}]
       /\ completed_sources = 1
       /\ total_sources = 3

\* the scenario of C8 has run to its end
C8_Witness ==
    /\ pc = "done"
    /\ loop_end = "deadline"
    /\ threads >= 3
    /\ max_enumeration_time = 2
    /\ timeout > max_enumeration_time
    /\ latency["crtsh"] = 1
    /\ returned["crtsh"] = [kind |-> "Ok", domains |-> {HostA}]
    /\ latency["virustotal"] = 3
    /\ latency["chaos"] = Never
    /\ status["virustotal"] = "dropped"
    /\ status["chaos"] = "dropped"

\* C9: when every task has returned before the overall timer elapses the loop
\* ends by exhaustion, and then completed_sources = total_sources = number of
\* sources
C9_ExhaustionCountsAll ==
    /\ loop_end = "exhausted" =>
          /\ completed_sources = total_sources
          /\ total_sources = Cardinality(Sources)
    /\ (/\ pc = "done"
        /\ proxy_test = "ok"
        /\ \A s \in Sources : status[s] = "done"
        /\ now < deadline) => loop_end = "exhausted"

\* exhaustion after a failure, a timeout and a success
C9_Witness ==
    /\ loop_end = "exhausted"
    /\ now < deadline
    /\ \E s \in Sources : returned[s].kind = "Err"
    /\ \E s \in Sources : TimedOut(s)
    /\ \E s \in Sources : returned[s].kind = "Ok" /\ returned[s].domains # {}

\* C10: a hostname reported by two consumed Success outcomes is attributed to
\* both providers and is one member of the aggregate set and of the result
C10_Attribution ==
    \A h \in Hosts : \A s1, s2 \in Sources :
        (/\ s1 # s2
         /\ outcome[s1].kind = "Ok" /\ h \in outcome[s1].domains
         /\ outcome[s2].kind = "Ok" /\ h \in outcome[s2].domains)
        => /\ h \in all_subdomains
           /\ h \in DOMAIN source_map
           /\ {s1, s2} \subseteq source_map[h]
           /\ (pc = "done" /\ h \in ValidHosts) => h \in result.value

\* two providers reported a.example.com, virustotal before crtsh
C10_Witness ==
    /\ pc = "done"
    /\ HostA \in outcome["crtsh"].domains
    /\ HostA \in outcome["virustotal"].domains
    /\ outcome["virustotal"].elapsed < outcome["crtsh"].elapsed
    /\ source_map[HostA] = {"crtsh", "virustotal"}
    /\ result.value = {HostA}

\* C11: the caller of enumerate_domain receives the surviving hostnames in the
\* order of the sort of line 203: ascending byte-wise, each hostname once
C11_SortedOutput ==
    (pc = "done" /\ result.kind = "Ok") =>
        /\ into_iter = sort(result.value)
        /\ \A i, j \in 1..Len(into_iter) :
              i < j => str_lt(into_iter[i], into_iter[j])

\* the characters a hostname may consist of
HostChars == LowerChars \cup UpperChars \cup DigitChars \cup {".", "-"}

\* the substrings no hostname may contain, whatever the case of its letters
ForbiddenSubstrings ==
    { <<".", ".">>, <<"@">>, <<"/", "/">>, <<"h", "t", "t", "p">>, <<"\\">>,
      <<"[">>, <<"]">>, <<"_">>, <<"*">>, <<"%">>, <<"?">>, <<"+">> }

\* pat occurs in h at position i when the case of letters is ignored
OccursAt(h, pat, i) ==
    /\ i + Len(pat) - 1 <= Len(h)
    /\ \A k \in 1..Len(pat) : to_lowercase_char(h[i + k - 1]) = pat[k]

\* the rules of the validity filter, stated on the positions of the string:
\* a label is a maximal run of characters without "."
PassesEveryRule(h, d) ==
    /\ Len(h) >= Len(d) + 1
    /\ h[Len(h) - Len(d)] = "."
    /\ \A i \in 1..Len(d) : h[Len(h) - Len(d) + i] = d[i]
    /\ h # d
    /\ Len(h) > Len(d) + 1
    /\ h[1] # "."
    /\ \A i \in 1..Len(h) : h[i] \in HostChars
    /\ Cardinality({ i \in 1..Len(h) : h[i] = "." }) + 1 >= 2
    /\ h[Len(h)] # "."
    /\ \A i \in 1..(Len(h) - 1) : ~(h[i] = "." /\ h[i + 1] = ".")
    /\ \A i \in 1..(Len(h) - MaxLabelLen) :
          \E k \in i..(i + MaxLabelLen) : h[k] = "."
    /\ h[1] # "-"
    /\ h[Len(h)] # "-"
    /\ \A i \in 1..(Len(h) - 1) :
          /\ ~(h[i] = "." /\ h[i + 1] = "-")
          /\ ~(h[i] = "-" /\ h[i + 1] = ".")
    /\ \A pat \in ForbiddenSubstrings :
          \A i \in 1..Len(h) : ~OccursAt(h, pat, i)

\* C12: is_valid_subdomain(H, D) is true exactly when H passes every rule of
\* the validity filter; for example.com, www.example.com and
\* xn--sub.example.com are valid, and example.com, sub..example.com,
\* -bad.example.com and a label of 64 characters before .example.com are not
C12_ValidityRules ==
    pc = "returned" =>
        /\ valid <=> PassesEveryRule(hostname, args_domain)
        /\ args_domain = Domain =>
              /\ hostname \in {HostWww, HostPunycode} => valid
              /\ hostname \in {Domain, HostDoubleDot, HostHyphen,
                                HostLongLabel} => ~valid

\* the call on the label of 64 characters has returned false
C12_Witness ==
    /\ pc = "returned"
    /\ args_domain = Domain
    /\ hostname = HostLongLabel
    /\ valid = FALSE

\* C13: every member of the aggregate set and every key of the attribution
\* map is a lowercase string, whatever the providers returned
C13_LowercaseOnMerge ==
    \A h \in all_subdomains \cup DOMAIN source_map : h = to_lowercase(h)

\* C14: a task gives its permit back when it returns with a result, an error
\* or a timeout, and when it is dropped at the deadline: the permits that are
\* free and those that are held add up to Config.threads, and all of them are
\* free once the run has ended
C14_PermitsReleased ==
    /\ (pc = "drain" /\ proxy_test = "ok") =>
          permits + Cardinality(PermitHolders) = threads
    /\ (pc = "done" /\ proxy_test = "ok") =>
          /\ PermitHolders = {}
          /\ permits = threads

\* a run in which one task failed, one timed out and one was dropped at the
\* deadline while it held a permit
C14_Witness ==
    /\ pc = "done"
    /\ loop_end = "deadline"
    /\ threads >= 1
    /\ permits = threads
    /\ active_tasks >= 1
    /\ \E s \in Sources : returned[s].kind = "Err"
    /\ \E s \in Sources : TimedOut(s)
    /\ \E s \in Sources : status[s] = "dropped"

\* C15: a provider that needs a key and has none sends no request, and its
\* enumerate returns at once with Ok and no hostname
C15_NoKeyNoRequest ==
    \A s \in CredentialSources \ api_keys :
        /\ s \notin requests
        /\ status[s] = "running" => latency[s] = 0
        /\ status[s] = "done" =>
              /\ returned[s] = [kind |-> "Ok", domains |-> {}]
              /\ outcome[s] = [kind |-> "Ok", domains |-> {},
                               source_name |-> s, elapsed |-> 0]

\* a run without any key: virustotal and chaos returned nothing without a
\* request, crtsh sent its request and reported a hostname
C15_Witness ==
    /\ pc = "done"
    /\ api_keys = {}
    /\ status["virustotal"] = "done"
    /\ status["chaos"] = "done"
    /\ requests = {"crtsh"}
    /\ returned["crtsh"] = [kind |-> "Ok", domains |-> {HostA}]
    /\ result.value = {HostA}

\* C16: merging a Success outcome that was merged before leaves the aggregate
\* set and the attribution map as they are
C16_MergeIdempotent ==
    [][\A s \in Sources :
          (outcome[s].kind = "Ok" /\ MergeAgain(s)) =>
              /\ all_subdomains' = all_subdomains
              /\ source_map' = source_map]_vars

\* two outcomes with a.example.com have been merged, and one of them again
C16_Witness ==
    /\ pc = "merge"
    /\ outcome["crtsh"].kind = "Ok"
    /\ outcome["virustotal"].kind = "Ok"
    /\ outcome["chaos"] = NoOutcome
    /\ completed_sources = 3
    /\ source_map = (HostA :> {"crtsh", "virustotal"})
    /\ all_subdomains = {HostA}

\* the sources whose Success outcome the loop has consumed
ConsumedSuccess ==
    { s \in Sources : status[s] = "done" /\ outcome[s].kind = "Ok" }

\* C17: in every state of the drain loop each hostname of all_subdomains is a
\* member of a Success outcome the loop has consumed, and all_subdomains holds
\* nothing else: errors, timeouts and unconsumed outcomes add no hostname
C17_OnlyConsumedSuccess ==
    /\ \A h \in all_subdomains :
          \E s \in ConsumedSuccess : h \in outcome[s].domains
    /\ all_subdomains = UNION { outcome[s].domains : s \in ConsumedSuccess }
    /\ \A s \in Sources \ ConsumedSuccess : outcome[s].domains = {}

\* in the loop: the outcome of crtsh with a.example.com is consumed,
\* virustotal failed, chaos is still running
C17_Witness ==
    /\ pc = "drain"
    /\ outcome["crtsh"].kind = "Ok"
    /\ outcome["crtsh"].domains = {HostA}
    /\ status["virustotal"] = "done"
    /\ returned["virustotal"].kind = "Err"
    /\ status["chaos"] = "running"
    /\ all_subdomains = {HostA}

\* C18: after every outcome the keys of source_map are the members of
\* all_subdomains, and the entry of a hostname is the non-empty set of the
\* sources whose consumed Success outcome contains it
C18_AttributionMatches ==
    /\ DOMAIN source_map = all_subdomains
    /\ \A h \in DOMAIN source_map :
          /\ source_map[h] # {}
          /\ source_map[h] = { s \in ConsumedSuccess : h \in outcome[s].domains }

\* in the loop: a.example.com came from two sources, _dmarc.example.com from
\* one, and the third source has not returned
C18_Witness ==
    /\ pc = "drain"
    /\ status["chaos"] # "done"
    /\ source_map = (HostA :> {"crtsh", "virustotal"}
                        @@ HostBad :> {"virustotal"})
    /\ all_subdomains = {HostA, HostBad}

\* C19: the step that consumes a Failed outcome adds one to completed_sources
\* and leaves all_subdomains, source_map and source_timings as they are
C19_FailedOutcomeFrame ==
    [][\A s \in Sources :
          (outcome[s] = NoOutcome /\ outcome'[s].kind = "Err") =>
              /\ completed_sources' = completed_sources + 1
              /\ all_subdomains' = all_subdomains
              /\ source_map' = source_map
              /\ source_timings' = source_timings]_vars

\* crtsh reported a.example.com at once, and a tick later the failure of
\* virustotal was consumed: two outcomes counted, one timing, one hostname
C19_Witness ==
    /\ pc = "drain"
    /\ outcome["crtsh"] = [kind |-> "Ok", domains |-> {HostA},
                           source_name |-> "crtsh", elapsed |-> 0]
    /\ source_start["crtsh"] = source_start["virustotal"]
    /\ outcome["virustotal"].kind = "Err"
    /\ outcome["virustotal"].elapsed = 1
    /\ completed_sources = 2
    /\ DOMAIN source_timings = {"crtsh"}
    /\ all_subdomains = {HostA}

\* C20: the enumerate of a source is invoked at most once and its outcome is
\* consumed at most once, also after a timeout or an error: a task that has
\* left the queue never goes back to it, the outcome of a finished task stays,
\* completed_sources counts the consumed outcomes and never exceeds
\* total_sources
C20_NoRetry ==
    [][/\ \A s \in Sources :
             /\ status[s] \in {"running", "done", "dropped"} =>
                   status'[s] \in {"running", "done", "dropped"}
             /\ (status'[s] = "running" /\ status[s] # "running") =>
                   status[s] = "queued"
             /\ status[s] \in {"done", "dropped"} =>
                   /\ status'[s] = status[s]
                   /\ outcome'[s] = outcome[s]
                   /\ returned'[s] = returned[s]
       /\ completed_sources' =
             Cardinality({ s \in Sources : outcome'[s] # NoOutcome })
       /\ completed_sources' <= total_sources']_vars

\* with one slot: a source failed, a source timed out, and each of the three
\* was counted once
C20_Witness ==
    /\ pc = "done"
    /\ threads = 1
    /\ \E s \in Sources : outcome[s].kind = "Err"
    /\ \E s \in Sources : TimedOut(s)
    /\ completed_sources = 3
    /\ total_sources = 3

\* C21: in the final statistics the hit count of a source is the number of
\* hostnames attributed to it that passed the filter, so hostnames the filter
\* dropped count for no source
C21_StatsCountSurvivors ==
    (pc = "done" /\ result.kind = "Ok") =>
        \A s \in DOMAIN source_stats :
            source_stats[s] =
                Cardinality({ h \in result.value : s \in source_map[h] })

\* C22 as stated: the aggregate set, the attribution map, the timing map and
\* the completion and active-task counters are written by the aggregator loop
\* only, so the step of a task leaves all five unchanged
C22_OnlyLoopWrites ==
    [][(\E s \in Sources : TaskAcquire(s)) =>
            UNCHANGED <<aggregate, active_tasks>>]_vars

\* C22 amended: a task writes the active-task counter itself (it counts itself
\* active once it holds a permit), and writes none of the aggregate set, the
\* attribution map, the timing map and the completion counter; these four
\* change only in the loop's step that takes one outcome from the stream
C22_TasksWriteOnlyCounter ==
    [][/\ \A s \in Sources :
             TaskAcquire(s) => /\ UNCHANGED aggregate
                               /\ active_tasks' = active_tasks + 1
       /\ aggregate' # aggregate =>
             /\ pc = "drain"
             /\ \E s \in Sources :
                   /\ outcome[s] = NoOutcome
                   /\ outcome'[s] # NoOutcome
                   /\ \A o \in Sources \ {s} : outcome'[o] = outcome[o]
                   /\ Consume(outcome'[s])]_vars

\* a task is running beside a loop that has merged another task's hostnames
C22_Witness ==
    /\ pc = "drain"
    /\ active_tasks >= 1
    /\ \E s \in Sources : status[s] = "running"
    /\ completed_sources >= 1
    /\ all_subdomains # {}

\* C23: the drain loop ends no later than max_enumeration_time after
\* enumerate_domain was entered (time 0), the proxy check included
C23_DeadlineFromEntry ==
    loop_end # "none" => now <= max_enumeration_time

\* C24: when enumerate_domain returns from a run whose tasks were created, the
\* active-task counter is back at 0, tasks abandoned at the deadline included
C24_CounterRestored ==
    (pc = "done" /\ result.kind = "Ok") => active_tasks = 0

\* C25: with at least one permit and an overall limit that does not fire,
\* every task eventually gets a permit and yields an outcome, so the loop ends
\* by exhaustion with every source counted, even when sources never answer
\* and there are fewer permits than sources
C25_NoStarvation ==
    (pc = "drain" /\ threads >= 1
                  /\ max_enumeration_time >= LongEnough(timeout))
        ~> (/\ loop_end = "exhausted"
            /\ completed_sources = total_sources
            /\ \A s \in Sources : outcome[s] # NoOutcome)

\* one permit for three sources, one of which never answered, and the loop
\* ended by exhaustion
C25_Witness ==
    /\ loop_end = "exhausted"
    /\ threads = 1
    /\ threads < Cardinality(Sources)
    /\ max_enumeration_time >= LongEnough(timeout)
    /\ \E s \in Sources : TimedOut(s) /\ latency[s] = Never
    /\ completed_sources = total_sources

\* C26: once the proxy check has succeeded, enumerate_domain eventually
\* returns a result, whatever the sources do and whatever the number of
\* permits
C26_EventuallyReturns ==
    (proxy_test = "ok") ~> (pc = "done" /\ result.kind = "Ok")

\* a run without permits, in which no task ever started, has returned at the
\* overall limit
C26_Witness ==
    /\ pc = "done"
    /\ threads = 0
    /\ loop_end = "deadline"
    /\ completed_sources = 0
    /\ \A s \in Sources : status[s] = "dropped" /\ outcome[s] = NoOutcome
    /\ result = [kind |-> "Ok", value |-> {}]

\* C27: a task first takes a permit, then counts itself active, then invokes
\* the provider against its timer.  The step that starts a task does all
\* three and is the only one in which a request is sent; a task yields its
\* outcome only after that step; and a timeout outcome comes exactly
\* `timeout` after the task took its permit, so a waiting task never times out
C27_TimeoutFromAcquisition ==
    [][\A s \in Sources :
          /\ (status[s] = "queued" /\ status'[s] = "running") =>
                /\ permits >= 1
                /\ permits' = permits - 1
                /\ active_tasks' = active_tasks + 1
                /\ source_start'[s] = now
          /\ (s \notin requests /\ s \in requests') =>
                (status[s] = "queued" /\ status'[s] = "running")
          /\ (outcome[s] = NoOutcome /\ outcome'[s] # NoOutcome) =>
                /\ status[s] = "running"
                /\ returned'[s] = NoReturn =>
                      /\ now - source_start[s] = timeout
                      /\ outcome'[s].elapsed = timeout]_vars

\* a task that waited for a permit timed out, `timeout` after it got one
C27_Witness ==
    \E s \in Sources :
        /\ TimedOut(s)
        /\ source_start[s] > deadline - max_enumeration_time
        /\ outcome[s] # NoOutcome
        /\ outcome[s].elapsed = timeout

\* C28: the aggregate set, the attribution map and the final hostname result
\* depend on which outcomes the loop has consumed and not on the order in
\* which it consumed them: they are the union of the consumed successes and,
\* per hostname, the sources whose success reported it
C28_OrderIndependent ==
    LET oks == { s \in Sources :
                   outcome[s] # NoOutcome /\ outcome[s].kind = "Ok" }
        reported == UNION { outcome[s].domains : s \in oks }
    IN  pc = "merge" =>
            /\ all_subdomains = reported
            /\ DOMAIN source_map = reported
            /\ \A h \in reported :
                  source_map[h] = { s \in oks : h \in outcome[s].domains }
            /\ collect(sort(filtered(all_subdomains, args_domain)))
                  = collect(sort(filtered(reported, args_domain)))

\* the outcomes of the three sources have been consumed, two of them
\* reporting the same hostname, in whichever order
C28_Witness ==
    /\ pc = "merge"
    /\ \A s \in Sources : outcome[s] # NoOutcome /\ outcome[s].kind = "Ok"
    /\ all_subdomains = {HostA, HostB, HostBad}
    /\ source_map[HostA] = {"crtsh", "virustotal"}

\* C29: the retry loops of ThreatCrowd and BufferOver are bounded and absorb
\* failure.  An endpoint is tried at most MAX_RETRIES times, with the delay
\* before every attempt on it but the first; nothing is tried after the first
\* response; BufferOver tries its second endpoint only after MAX_RETRIES
\* failures on the first; and enumerate returns Ok, with no hostname when
\* every attempt has failed
C29_BoundedRetries ==
    LET n == Len(attempts)
        on(u) == { i \in 1..n : attempts[i].url = u }
        us == urls(retry_source)
    IN  retry_source \in RetrySources =>
            /\ \A k \in 1..Len(us) : Cardinality(on(us[k])) <= MAX_RETRIES
            /\ n <= MAX_RETRIES * Len(us)
            /\ \A i \in 1..n :
                  /\ attempts[i].url \in Range(us)
                  /\ attempts[i].delayed =
                        (i > 1 /\ attempts[i - 1].url = attempts[i].url)
                  /\ attempts[i].kind = "Ok" => i = n /\ pc = "returned"
                  /\ (Len(us) > 1 /\ attempts[i].url = us[2]) =>
                        /\ i > MAX_RETRIES
                        /\ \A j \in 1..MAX_RETRIES :
                              /\ attempts[j].url = us[1]
                              /\ attempts[j].kind = "Err"
            /\ pc = "returned" =>
                  /\ enumerated.kind = "Ok"
                  /\ (\A i \in 1..n : attempts[i].kind = "Err") =>
                        /\ enumerated.domains = {}
                        /\ n = MAX_RETRIES * Len(us)

\* BufferOver has returned Ok with no hostname after three failures on each
\* of its two endpoints
C29_Witness ==
    /\ pc = "returned"
    /\ retry_source = "bufferover"
    /\ Len(attempts) = MAX_RETRIES * Len(urls("bufferover"))
    /\ \A i \in 1..Len(attempts) : attempts[i].kind = "Err"
    /\ enumerated = [kind |-> "Ok", domains |-> {}]

\* C30: when a proxy is configured, every source that has sent a request sent
\* it through a client built with that proxy
C30_RequestsThroughProxy ==
    proxy = "some" => \A s \in requests : clients[s].proxy = proxy

====
